---- MODULE Spec2Model ----
(***************************************************************************)
(* UberonTerminologyImporterLogic of UberonTerminologyImporter.py: the     *)
(* flattening of a parsed JSON ontology, the lookups over the flat list,   *)
(* the containment resolver and the terminology builder (process).         *)
(*                                                                         *)
(* Python values are records of one shape, so that any two of them can be  *)
(* compared: t is the Python type, s a str's text, n an int's value, keys  *)
(* and vals a dict's keys and values in insertion order, vals alone a      *)
(* list's elements.  Python indices are zero-based; TLA+ sequences are     *)
(* one-based, and every access below says which it uses.                   *)
(***************************************************************************)
EXTENDS Integers, Sequences, FiniteSets, TLC

VARIABLES
  fileContent,         \* what the existing input file holds (never written by the program)
  loadedJson,          \* self.loadedJson
  loadedJsonFlatList,  \* self.loadedJsonFlatList
  outFile,             \* what the output file holds, NoOutFile before the first write
  call,                \* the last call made on the logic object and its arguments
  result               \* how that call ended: the value returned or the exception raised

vars == <<fileContent, loadedJson, loadedJsonFlatList, outFile, call, result>>

---------------------------------------------------------------------------
(* Python values *)

NoneVal == [t |-> "none", s |-> "", n |-> 0, keys |-> <<>>, vals |-> <<>>]
JStr(str) == [t |-> "str", s |-> str, n |-> 0, keys |-> <<>>, vals |-> <<>>]
JInt(int) == [t |-> "int", s |-> "", n |-> int, keys |-> <<>>, vals |-> <<>>]
JList(elements) == [t |-> "list", s |-> "", n |-> 0, keys |-> <<>>, vals |-> elements]
JDict(ks, vs) == [t |-> "dict", s |-> "", n |-> 0, keys |-> ks, vals |-> vs]
\* character n of the str s, for a str longer than one character
JChar(str, int) == [t |-> "char", s |-> str, n |-> int, keys |-> <<>>, vals |-> <<>>]

\* a file whose text json.loads rejects
Malformed == [t |-> "malformed", s |-> "", n |-> 0, keys |-> <<>>, vals |-> <<>>]

\* a Python list of flat elements, or None where the attribute holds no list
NoneList == [isNone |-> TRUE, elems |-> <<>>]
PyList(elements) == [isNone |-> FALSE, elems |-> elements]

\* how a call ends
Ret(v) == [status |-> "return", exc |-> "", val |-> v]
Raise(e) == [status |-> "raise", exc |-> e, val |-> NoneVal]

\* the one-based position of key in the sequence ks, 0 when it is not there
RECURSIVE KeyPos(_, _, _)
KeyPos(ks, key, i) ==
  IF i > Len(ks) THEN 0
  ELSE IF ks[i] = key THEN i
  ELSE KeyPos(ks, key, i + 1)

\* currentJson[elem]: subscription of a dict, a list or a str
PyGetItemAbsentDefault(cur, elem) ==
  IF cur.t = "dict" THEN
    IF elem.t = "str" /\ KeyPos(cur.keys, elem.s, 1) > 0
    THEN Ret(cur.vals[KeyPos(cur.keys, elem.s, 1)])
    ELSE Ret(NoneVal)
  ELSE IF cur.t = "list" THEN
    IF elem.t = "int" /\ elem.n >= 0 /\ elem.n < Len(cur.vals)
    THEN Ret(cur.vals[elem.n + 1])
    ELSE Ret(NoneVal)
  ELSE Raise("TypeError")

PyGetItem(cur, elem) ==
  IF cur.t = "dict" THEN
    IF elem.t \in {"list", "dict"} THEN Raise("TypeError")   \* unhashable key
    ELSE IF elem.t = "str" /\ KeyPos(cur.keys, elem.s, 1) > 0
    THEN Ret(cur.vals[KeyPos(cur.keys, elem.s, 1)])
    ELSE Raise("KeyError")
  ELSE IF cur.t = "list" THEN
    IF elem.t # "int" THEN Raise("TypeError")
    ELSE IF elem.n >= 0 /\ elem.n < Len(cur.vals) THEN Ret(cur.vals[elem.n + 1])
    ELSE Raise("IndexError")
  ELSE IF cur.t = "str" THEN
    IF elem.t # "int" THEN Raise("TypeError")
    ELSE IF elem.n >= 0 /\ elem.n < Len(cur.s)
    THEN Ret(IF Len(cur.s) = 1 THEN cur ELSE JChar(cur.s, elem.n))
    ELSE Raise("IndexError")
  ELSE Raise("TypeError")

---------------------------------------------------------------------------
(* flatListFromDict *)

RECURSIVE flatListFromDict(_, _)
RECURSIVE flatListItems(_, _, _)
RECURSIVE flatDictItems(_, _, _)

\* for k, v in enumerate(value): the paths of v under prefix + [[k]]; k is zero-based
flatListItems(value, prefix, k) ==
  IF k >= Len(value.vals) THEN <<>>
  ELSE flatListFromDict(value.vals[k + 1], prefix \o <<JList(<<JInt(k)>>)>>)
       \o flatListItems(value, prefix, k + 1)

\* for key, value in dictionary.items(), from the i-th item (one-based) on
flatDictItems(dictionary, previous, i) ==
  IF i > Len(dictionary.keys) THEN <<>>
  ELSE LET key == JStr(dictionary.keys[i])
           value == dictionary.vals[i]
       IN  (IF value.t = "dict" THEN flatListFromDict(value, previous \o <<key>>)
            ELSE IF value.t = "list" THEN flatListItems(value, previous \o <<key>>, 0)
            ELSE << previous \o <<key, value>> >>)
           \o flatDictItems(dictionary, previous, i + 1)

\* the generator's items in the order it yields them
flatListFromDict(dictionary, previous) ==
  IF dictionary.t = "dict" THEN flatDictItems(dictionary, previous, 1)
  ELSE << previous \o <<dictionary>> >>

---------------------------------------------------------------------------
(* findValueInFlatList *)

RuntimeErrorNotFound == "RuntimeError"

\* elem[-1] == value and (tag is None or elem[-2] == tag), for a tag that is given
TagMatchesIgnored(elem, tag) == TRUE

TagMatches(elem, tag) == elem[Len(elem) - 1] = tag

\* the loop over self.loadedJsonFlatList from the i-th element (one-based) on
RECURSIVE findScan(_, _, _, _)
findScan(elems, i, value, tag) ==
  IF i > Len(elems) THEN Raise(RuntimeErrorNotFound)
  ELSE LET elem == elems[i] IN
    IF elem[Len(elem)] = value THEN
      IF tag = NoneVal THEN [Ret(NoneVal) EXCEPT !.val = elem]
      ELSE IF Len(elem) < 2 THEN Raise("IndexError")
      ELSE IF TagMatches(elem, tag) THEN [Ret(NoneVal) EXCEPT !.val = elem]
      ELSE findScan(elems, i + 1, value, tag)
    ELSE findScan(elems, i + 1, value, tag)

findValueInFlatList(flatList, value, tag) ==
  IF flatList.isNone THEN Raise("TypeError")   \* iterating None
  ELSE findScan(flatList.elems, 1, value, tag)

---------------------------------------------------------------------------
(* getJsonElementFromFlatElement *)

DefaultDepth == 99999

MissingDocument == Ret(NoneVal)

\* the loop "for currentDepth, elem in enumerate(flatElement)"; currentDepth is zero-based
RECURSIVE replayFlatElement(_, _, _, _)
replayFlatElement(currentJson, flatElement, currentDepth, depth) ==
  IF currentDepth >= Len(flatElement) THEN Ret(currentJson)
  ELSE LET raw == flatElement[currentDepth + 1] IN
    IF raw.t = "list" /\ Len(raw.vals) = 0 THEN Raise("IndexError")   \* elem[0] of []
    ELSE LET elem == IF raw.t = "list" THEN raw.vals[1] ELSE raw IN
      IF currentDepth = depth THEN Ret(currentJson)
      ELSE LET next == PyGetItem(currentJson, elem) IN
        IF next.status = "raise" THEN next
        ELSE replayFlatElement(next.val, flatElement, currentDepth + 1, depth)

getJsonElementFromFlatElement(json, flatElement, depth) ==
  IF json = NoneVal THEN MissingDocument
  ELSE replayFlatElement(json, flatElement, 0, depth)

---------------------------------------------------------------------------
(* getChildrenForNode *)

\* the depth of nested calls at which the interpreter raises RecursionError
RecursionLimit == 4

containmentPredicateIDsIsAOnly == <<"is_a">>

\* self.containmentPredicateIDs: the IsA and PartOf predicates
containmentPredicateIDs == <<"is_a", "http://purl.obolibrary.org/obo/BFO_0000050">>

\* edge['pred'] in self.containmentPredicateIDs
InPredicateList(pred) ==
  \E i \in 1..Len(containmentPredicateIDs) : pred = JStr(containmentPredicateIDs[i])

\* elem[2] == 'edges' and elem[4] == 'obj' and elem[5] == uberonNodeID, evaluated
\* left to right: "IndexError" where an index is past the end of elem
EdgeTest(elem, uberonNodeID) ==
  IF Len(elem) < 3 THEN "IndexError"
  ELSE IF elem[3] # JStr("edges") THEN "skip"
  ELSE IF Len(elem) < 5 THEN "IndexError"
  ELSE IF elem[5] # JStr("obj") THEN "skip"
  ELSE IF Len(elem) < 6 THEN "IndexError"
  ELSE IF elem[6] # uberonNodeID THEN "skip"
  ELSE "match"

\* how getChildrenForNode ends: exc is "" when it returns ids
Children(ids) == [exc |-> "", ids |-> ids]
ChildrenFailed(e) == [exc |-> e, ids |-> {}]

\* the body of the loop for an elem that passed EdgeTest: the edge's subject is added
\* when the edge's predicate is a containment predicate
AddChildOfEdge(json, elem, acc) ==
  LET edge == getJsonElementFromFlatElement(json, elem, 4) IN
  IF edge.status = "raise" THEN ChildrenFailed(edge.exc)
  ELSE LET pred == PyGetItem(edge.val, JStr("pred")) IN
    IF pred.status = "raise" THEN ChildrenFailed(pred.exc)
    ELSE IF ~InPredicateList(pred.val) THEN Children(acc)
    ELSE LET sub == PyGetItem(edge.val, JStr("sub")) IN
      IF sub.status = "raise" THEN ChildrenFailed(sub.exc)
      ELSE IF sub.val.t \in {"list", "dict"} THEN ChildrenFailed("TypeError")   \* unhashable
      ELSE Children(acc \cup {sub.val})

\* the first loop of getChildrenForNode, from the i-th flat element (one-based) on
RECURSIVE directChildScan(_, _, _, _, _)
directChildScan(json, elems, i, uberonNodeID, acc) ==
  IF i > Len(elems) THEN Children(acc)
  ELSE LET test == EdgeTest(elems[i], uberonNodeID) IN
    IF test = "IndexError" THEN ChildrenFailed("IndexError")
    ELSE IF test = "skip" THEN directChildScan(json, elems, i + 1, uberonNodeID, acc)
    ELSE LET added == AddChildOfEdge(json, elems[i], acc) IN
      IF added.exc # "" THEN added
      ELSE directChildScan(json, elems, i + 1, uberonNodeID, added.ids)

\* the commented-out "allChildNodeIDs = directChildNodeIDs.copy()"
InitialAllChildNodeIDsCopy(directChildNodeIDs) == directChildNodeIDs

\* allChildNodeIDs = set()
InitialAllChildNodeIDs(directChildNodeIDs) == {}

\* allChildNodeIDs = allChildNodeIDs.union(directChildNodeIDs)
UnionDirect(allChildNodeIDs, directChildNodeIDs) == allChildNodeIDs \cup directChildNodeIDs

RECURSIVE getChildrenAt(_, _, _, _, _)
RECURSIVE childLoop(_, _, _, _, _, _)

\* "for childNodeID in directChildNodeIDs" over the children not yet visited: a set is
\* iterated in an order the program does not choose, so every order is an outcome
childLoop(flatList, json, directChildNodeIDs, remaining, allChildNodeIDs, depth) ==
  IF remaining = {} THEN {Children(UnionDirect(allChildNodeIDs, directChildNodeIDs))}
  ELSE UNION {
    IF childNodeID \in allChildNodeIDs
    THEN childLoop(flatList, json, directChildNodeIDs, remaining \ {childNodeID},
                   allChildNodeIDs, depth)   \* skip circular connections
    ELSE UNION {
      IF r.exc # "" THEN {r}
      ELSE childLoop(flatList, json, directChildNodeIDs, remaining \ {childNodeID},
                     allChildNodeIDs \cup r.ids, depth)
      : r \in getChildrenAt(flatList, json, childNodeID, TRUE, depth + 1) }
    : childNodeID \in remaining }

\* the call at nesting depth `depth`: the set of ways it can end
getChildrenAt(flatList, json, uberonNodeID, recursive, depth) ==
  IF depth > RecursionLimit THEN {ChildrenFailed("RecursionError")}
  ELSE IF flatList.isNone THEN {ChildrenFailed("TypeError")}   \* iterating None
  ELSE LET direct == directChildScan(json, flatList.elems, 1, uberonNodeID, {}) IN
    IF direct.exc # "" \/ ~recursive THEN {direct}
    ELSE childLoop(flatList, json, direct.ids, direct.ids,
                   InitialAllChildNodeIDs(direct.ids), depth)

getChildrenForNode(flatList, json, uberonNodeID, recursive) ==
  getChildrenAt(flatList, json, uberonNodeID, recursive, 1)

---------------------------------------------------------------------------
(* process *)

rootNodeLabel == "subdivision of skeleton"

\* newType, as the inner loop fills it
NewTypeLabelAsCodeValue(typeLabel, typeNodeID) ==
  [CodeMeaning |-> typeNodeID, CodingSchemeDesignator |-> "Uberon", CodeValue |-> typeLabel,
   recommendedDisplayRGBValue |-> <<128, 128, 128>>]

NewType(typeLabel, typeNodeID) ==
  [CodeMeaning |-> typeLabel, CodingSchemeDesignator |-> "Uberon", CodeValue |-> typeNodeID,
   recommendedDisplayRGBValue |-> <<128, 128, 128>>]

\* newCategory with its list of types
NewCategory(childLabel, childNodeID, newTypes) ==
  [CodeMeaning |-> childLabel, CodingSchemeDesignator |-> "Uberon", CodeValue |-> childNodeID,
   showAnatomy |-> "false", Type |-> newTypes]

IsLeafCategoryNever(typeNodeIDsInCategory) == FALSE

\* len(typeNodeIDsInCategory) == 0: the category is a leaf and is left out
IsLeafCategory(typeNodeIDsInCategory) == Cardinality(typeNodeIDsInCategory) = 0

\* terminologyJson with its categories
Terminology(categories) ==
  [SegmentationCategoryTypeContextName |-> rootNodeLabel,
   schema |-> "https://raw.githubusercontent.com/qiicr/dcmqi/master/doc/schemas/segment-context-schema.json#",
   Category |-> categories]

\* the label of the node whose id is nodeID: findValueInFlatList(nodeID, 'id'),
\* getJsonElementFromFlatElement(item, 4) and element['lbl']
LabelOfNode(flatList, json, nodeID) ==
  LET item == findValueInFlatList(flatList, nodeID, JStr("id")) IN
  IF item.status = "raise" THEN item
  ELSE LET element == getJsonElementFromFlatElement(json, item.val, 4) IN
    IF element.status = "raise" THEN element
    ELSE PyGetItem(element.val, JStr("lbl"))

\* how a loop of process ends: exc is "" when it ran to its end, items is what it had
\* appended by then
Built(items) == [exc |-> "", items |-> items]
Broken(e, items) == [exc |-> e, items |-> items]

\* "for typeNodeID in typeNodeIDsInCategory" over the types not yet visited, in any order
RECURSIVE typeLoop(_, _, _, _)
typeLoop(flatList, json, remaining, newTypes) ==
  IF remaining = {} THEN {Built(newTypes)}
  ELSE UNION {
    LET typeLabel == LabelOfNode(flatList, json, typeNodeID) IN
    IF typeLabel.status = "raise" THEN {Broken(typeLabel.exc, newTypes)}
    ELSE typeLoop(flatList, json, remaining \ {typeNodeID},
                  Append(newTypes, NewType(typeLabel.val, typeNodeID)))
    : typeNodeID \in remaining }

\* "for childNodeID in childNodeIDs" over the children not yet visited, in any order
RECURSIVE categoryLoop(_, _, _, _)
categoryLoop(flatList, json, remaining, categories) ==
  IF remaining = {} THEN {Built(categories)}
  ELSE UNION {
    LET childLabel == LabelOfNode(flatList, json, childNodeID) IN
    IF childLabel.status = "raise" THEN {Broken(childLabel.exc, categories)}
    ELSE UNION {
      IF typeNodeIDsInCategory.exc # "" THEN {Broken(typeNodeIDsInCategory.exc, categories)}
      ELSE IF IsLeafCategory(typeNodeIDsInCategory.ids)
      THEN categoryLoop(flatList, json, remaining \ {childNodeID}, categories)
      ELSE UNION {
        LET withCategory ==
              Append(categories, NewCategory(childLabel.val, childNodeID, newTypes.items))
        IN  IF newTypes.exc # "" THEN {Broken(newTypes.exc, withCategory)}
            ELSE categoryLoop(flatList, json, remaining \ {childNodeID}, withCategory)
        : newTypes \in typeLoop(flatList, json, typeNodeIDsInCategory.ids, <<>>) }
      : typeNodeIDsInCategory \in getChildrenForNode(flatList, json, childNodeID, TRUE) }
    : childNodeID \in remaining }

\* process from the lookup of the root node to the end of the loop over the children
buildCategories(flatList, json) ==
  LET rootNodeListItem == findValueInFlatList(flatList, JStr(rootNodeLabel), JStr("lbl")) IN
  IF rootNodeListItem.status = "raise" THEN {Broken(rootNodeListItem.exc, <<>>)}
  ELSE LET rootNodeJsonElement == getJsonElementFromFlatElement(json, rootNodeListItem.val, 4) IN
    IF rootNodeJsonElement.status = "raise" THEN {Broken(rootNodeJsonElement.exc, <<>>)}
    ELSE LET rootNodeID == PyGetItem(rootNodeJsonElement.val, JStr("id")) IN
      IF rootNodeID.status = "raise" THEN {Broken(rootNodeID.exc, <<>>)}
      ELSE UNION {
        IF childNodeIDs.exc # "" THEN {Broken(childNodeIDs.exc, <<>>)}
        ELSE categoryLoop(flatList, json, childNodeIDs.ids, <<>>)
        : childNodeIDs \in getChildrenForNode(flatList, json, rootNodeID.val, FALSE) }

\* the file written by a run that got as far as `built`
WrittenEvenWhenBroken(built, oldOutFile) ==
  [exists |-> TRUE, json |-> Terminology(built.items)]

\* json.dump(terminologyJson, fh) is the last step: a run that raised before it leaves
\* the file as it was
Written(built, oldOutFile) ==
  IF built.exc # "" THEN oldOutFile
  ELSE [exists |-> TRUE, json |-> Terminology(built.items)]

\* a process that drops the document and the flat list when it ends
ProcessEndReleased(e, json, flatList, out) ==
  [exc |-> e, loadedJson |-> NoneVal, loadedJsonFlatList |-> NoneList, outFile |-> out]

\* how process ends and what it leaves behind
ProcessEnd(e, json, flatList, out) ==
  [exc |-> e, loadedJson |-> json, loadedJsonFlatList |-> flatList, outFile |-> out]

\* process(parameterNode): parameterNode is "none" (no parameter node), "missing" (its
\* inputFilePath names no file) or "input" (its inputFilePath names the input file)
process(parameterNode, file, oldJson, oldFlatList, oldOutFile) ==
  IF parameterNode = "none" THEN {ProcessEnd("ValueError", oldJson, oldFlatList, oldOutFile)}
  ELSE IF parameterNode = "missing"
  THEN {ProcessEnd("ValueError", oldJson, oldFlatList, oldOutFile)}
  ELSE IF file = Malformed
  THEN {ProcessEnd("JSONDecodeError", oldJson, oldFlatList, oldOutFile)}
  ELSE LET flatList == PyList(flatListFromDict(file, <<>>)) IN
    {ProcessEnd(built.exc, file, flatList, Written(built, oldOutFile))
     : built \in buildCategories(flatList, file)}

---------------------------------------------------------------------------
(* The calls made on the logic object *)

\* the terminology dictionary before anything is put in it, and the output file
\* before it is written
NoTerminology == [SegmentationCategoryTypeContextName |-> "", schema |-> "", Category |-> <<>>]
NoOutFile == [exists |-> FALSE, json |-> NoTerminology]

NoCall ==
  [op |-> "none", flatElement |-> <<>>, depth |-> 0, value |-> NoneVal, tag |-> NoneVal,
   uberonNodeID |-> NoneVal, recursive |-> FALSE, parameterNode |-> "none"]

NoResult ==
  [status |-> "none", exc |-> "", json |-> NoneVal, flatElement |-> <<>>,
   flatList |-> <<>>, ids |-> {}]

Returned == [NoResult EXCEPT !.status = "return"]
Raised(e) == [NoResult EXCEPT !.status = "raise", !.exc = e]

\* UberonTerminologyImporterLogic.flatListFromDict(fileContent), the generator run to its end
FlatListFromDictCall ==
  /\ fileContent # Malformed
  /\ call' = [NoCall EXCEPT !.op = "flatListFromDict", !.value = fileContent]
  /\ result' = [Returned EXCEPT !.flatList = flatListFromDict(fileContent, <<>>)]
  /\ UNCHANGED <<fileContent, loadedJson, loadedJsonFlatList, outFile>>

\* logic.getJsonElementFromFlatElement(flatElement, depth)
GetJsonElementCall(flatElement, depth) ==
  LET r == getJsonElementFromFlatElement(loadedJson, flatElement, depth) IN
  /\ call' = [NoCall EXCEPT !.op = "getJsonElementFromFlatElement",
                            !.flatElement = flatElement, !.depth = depth]
  /\ result' = IF r.status = "raise" THEN Raised(r.exc)
               ELSE [Returned EXCEPT !.json = r.val]
  /\ UNCHANGED <<fileContent, loadedJson, loadedJsonFlatList, outFile>>

\* logic.findValueInFlatList(value, tag)
FindValueInFlatListCall(value, tag) ==
  LET r == findValueInFlatList(loadedJsonFlatList, value, tag) IN
  /\ call' = [NoCall EXCEPT !.op = "findValueInFlatList", !.value = value, !.tag = tag]
  /\ result' = IF r.status = "raise" THEN Raised(r.exc)
               ELSE [Returned EXCEPT !.flatElement = r.val]
  /\ UNCHANGED <<fileContent, loadedJson, loadedJsonFlatList, outFile>>

\* logic.getChildrenForNode(uberonNodeID, recursive)
GetChildrenForNodeCall(uberonNodeID, recursive) ==
  \E r \in getChildrenForNode(loadedJsonFlatList, loadedJson, uberonNodeID, recursive) :
    /\ call' = [NoCall EXCEPT !.op = "getChildrenForNode",
                              !.uberonNodeID = uberonNodeID, !.recursive = recursive]
    /\ result' = IF r.exc # "" THEN Raised(r.exc) ELSE [Returned EXCEPT !.ids = r.ids]
    /\ UNCHANGED <<fileContent, loadedJson, loadedJsonFlatList, outFile>>

\* logic.process(parameterNode)
ProcessCall(parameterNode) ==
  \E end \in process(parameterNode, fileContent, loadedJson, loadedJsonFlatList, outFile) :
    /\ call' = [NoCall EXCEPT !.op = "process", !.parameterNode = parameterNode]
    /\ result' = IF end.exc # "" THEN Raised(end.exc) ELSE Returned
    /\ loadedJson' = end.loadedJson
    /\ loadedJsonFlatList' = end.loadedJsonFlatList
    /\ outFile' = end.outFile
    /\ UNCHANGED fileContent

---------------------------------------------------------------------------
(* JSON documents of any shape: the inputs of the flattening and of the replay *)

\* the longest array inside a document
MaxLen == 2

Scalars == {JStr("x"), JStr("y")}

KeySeqs == {<<>>, <<"a">>, <<"b">>, <<"a", "b">>}

\* arrays of scalars, and arrays that hold an array or an object
InnerLists ==
  UNION {{JList(f) : f \in [1..k -> Scalars]} : k \in 0..MaxLen}
  \cup {JList(<<JList(<<>>)>>), JList(<<JList(<<JStr("x")>>)>>),
        JList(<<JStr("x"), JList(<<JStr("y")>>)>>),
        JList(<<JDict(<<"a">>, <<JStr("x")>>)>>),
        JList(<<JDict(<<"a", "b">>, <<JStr("x"), JStr("y")>>), JStr("x")>>)}

InnerDicts == UNION {{JDict(ks, f) : f \in [1..Len(ks) -> Scalars]} : ks \in KeySeqs}

InnerValues == Scalars \cup InnerLists \cup InnerDicts

TopDicts ==
  {JDict(<<"a">>, <<v>>) : v \in InnerValues}
  \cup {JDict(<<"a", "b">>, <<v, w>>) :
          v \in InnerValues, w \in Scalars \cup {JDict(<<"a">>, <<JStr("x")>>)}}

TopLists == {JList(<<>>)} \cup {JList(<<v>>) : v \in InnerValues}

JsonValues == InnerValues \cup TopDicts \cup TopLists

\* flatElement with its j-th element (one-based) replaced by a key no object has or by
\* an index no array has
WithMissingSegment(flatElement, j) ==
  [flatElement EXCEPT ![j] = IF flatElement[j].t = "list"
                             THEN JList(<<JInt(MaxLen)>>)
                             ELSE JStr("zz")]

\* the flat elements handed to getJsonElementFromFlatElement
FlatElementArgs ==
  LET elems == flatListFromDict(fileContent, <<>>) IN
  {elems[i] : i \in 1..Len(elems)}
  \cup UNION {{WithMissingSegment(elems[i], j) : j \in 1..Len(elems[i])} : i \in 1..Len(elems)}

InitFlat ==
  /\ fileContent \in JsonValues
  /\ \/ loadedJson = NoneVal /\ loadedJsonFlatList = NoneList
     \/ loadedJson = fileContent
        /\ loadedJsonFlatList = PyList(flatListFromDict(fileContent, <<>>))
  /\ outFile = NoOutFile
  /\ call = NoCall
  /\ result = NoResult

NextFlat ==
  \/ FlatListFromDictCall
  \/ \E flatElement \in FlatElementArgs :
       \E depth \in (0..Len(flatElement)) \cup {DefaultDepth} :
         GetJsonElementCall(flatElement, depth)

SpecFlat == InitFlat /\ [][NextFlat]_vars

---------------------------------------------------------------------------
(* Ontology documents: OBO-graph JSON, one graph with its nodes and its edges *)

PartOf == "http://purl.obolibrary.org/obo/BFO_0000050"
HasPart == "http://purl.obolibrary.org/obo/BFO_0000051"   \* not a containment predicate

Edge(sub, pred, obj) == [sub |-> sub, pred |-> pred, obj |-> obj]

NodeLabel(id) == IF id = "U0" THEN rootNodeLabel ELSE "label of " \o id

\* the node record of id: {"id": ..., "lbl": ...}, or without "lbl"
NodeRecord(id, withLabel) ==
  IF withLabel THEN JDict(<<"id", "lbl">>, <<JStr(id), JStr(NodeLabel(id))>>)
  ELSE JDict(<<"id">>, <<JStr(id)>>)

EdgeRecord(e) == JDict(<<"sub", "pred", "obj">>, <<JStr(e.sub), JStr(e.pred), JStr(e.obj)>>)

\* {"graphs": [{"id": ..., "nodes": [...], "edges": [...]}]}
Ontology(nodeRecords, edges) ==
  JDict(<<"graphs">>,
        <<JList(<<JDict(<<"id", "nodes", "edges">>,
                        <<JStr("http://purl.obolibrary.org/obo/uberon.owl"),
                          JList(nodeRecords),
                          JList([i \in 1..Len(edges) |-> EdgeRecord(edges[i])])>>)>>)>>)

\* the edges of the sequence `edges` whose positions are in chosen, in the sequence's order
RECURSIVE EdgesIn(_, _, _)
EdgesIn(edges, chosen, i) ==
  IF i > Len(edges) THEN <<>>
  ELSE (IF i \in chosen THEN <<edges[i]>> ELSE <<>>) \o EdgesIn(edges, chosen, i + 1)

\* the subsets of 1..n of at most k elements
RECURSIVE SubsetsUpTo(_, _)
SubsetsUpTo(n, k) ==
  IF n = 0 \/ k = 0 THEN {{}}
  ELSE SubsetsUpTo(n - 1, k) \cup {chosen \cup {n} : chosen \in SubsetsUpTo(n - 1, k - 1)}

\* the most edges of an ontology handed to the containment resolver
MaxEdges == 3

ResolverNodes == <<"U0", "U1", "U2">>

\* edges between two different nodes of ResolverNodes: is-a both ways between every
\* two nodes, part-of and has-part between some
ResolverEdges ==
  << Edge("U1", "is_a", "U0"), Edge("U2", "is_a", "U0"), Edge("U2", "is_a", "U1"),
     Edge("U0", "is_a", "U1"), Edge("U0", "is_a", "U2"), Edge("U1", "is_a", "U2"),
     Edge("U1", PartOf, "U0"), Edge("U2", PartOf, "U1"), Edge("U0", PartOf, "U2"),
     Edge("U2", HasPart, "U0"), Edge("U1", HasPart, "U2"), Edge("U0", HasPart, "U1") >>

ResolverOntologies ==
  {Ontology([i \in 1..Len(ResolverNodes) |-> NodeRecord(ResolverNodes[i], TRUE)],
            EdgesIn(ResolverEdges, chosen, 1))
   : chosen \in SubsetsUpTo(Len(ResolverEdges), MaxEdges)}

\* the edges an ontology handed to process is made of: two children of the root, a
\* node under both, a child under a child, edges that close a cycle, an edge that
\* makes the root a child, and edges under a predicate that is no containment
OntologyEdges ==
  << Edge("U1", "is_a", "U0"), Edge("U2", PartOf, "U0"), Edge("U3", "is_a", "U1"),
     Edge("U3", PartOf, "U2"), Edge("U2", "is_a", "U1"), Edge("U1", "is_a", "U3"),
     Edge("U3", HasPart, "U0"), Edge("U0", PartOf, "U2") >>

\* the node records of an ontology handed to process: all of U0..U3, or the root
\* without its label, or U3 without a record, or U3 without its label
NodeRecordLists ==
  { <<NodeRecord("U0", TRUE), NodeRecord("U1", TRUE), NodeRecord("U2", TRUE), NodeRecord("U3", TRUE)>>,
    <<NodeRecord("U0", FALSE), NodeRecord("U1", TRUE), NodeRecord("U2", TRUE), NodeRecord("U3", TRUE)>>,
    <<NodeRecord("U0", TRUE), NodeRecord("U1", TRUE), NodeRecord("U2", TRUE)>>,
    <<NodeRecord("U0", TRUE), NodeRecord("U1", TRUE), NodeRecord("U2", TRUE), NodeRecord("U3", FALSE)>> }

Ontologies ==
  {Ontology(nodeRecords, EdgesIn(OntologyEdges, chosen, 1))
   : nodeRecords \in NodeRecordLists, chosen \in SUBSET (1..Len(OntologyEdges))}

\* the logic object as constructed, and an input file that is an ontology or is not JSON
Init ==
  /\ fileContent \in Ontologies \cup {Malformed}
  /\ loadedJson = NoneVal
  /\ loadedJsonFlatList = NoneList
  /\ outFile = NoOutFile
  /\ call = NoCall
  /\ result = NoResult

Next == \E parameterNode \in {"none", "missing", "input"} : ProcessCall(parameterNode)

Spec == Init /\ [][Next]_vars

\* the logic object after process has run on an ontology: the state in which the
\* lookups and the containment resolver are called
InitResolver ==
  \E file \in ResolverOntologies :
    \E end \in process("input", file, NoneVal, NoneList, NoOutFile) :
      /\ fileContent = file
      /\ loadedJson = end.loadedJson
      /\ loadedJsonFlatList = end.loadedJsonFlatList
      /\ outFile = end.outFile
      /\ call = [NoCall EXCEPT !.op = "process", !.parameterNode = "input"]
      /\ result = IF end.exc # "" THEN Raised(end.exc) ELSE Returned

\* the values looked up, and the keys they are looked up under (None: under any key)
LookupValues == {JStr(rootNodeLabel), JStr("U1"), JStr("zz")}
LookupTags == {NoneVal, JStr("id"), JStr("obj")}

NextResolver ==
  \/ \E i \in 1..Len(ResolverNodes), recursive \in BOOLEAN :
       GetChildrenForNodeCall(JStr(ResolverNodes[i]), recursive)
  \/ \E value \in LookupValues, tag \in LookupTags : FindValueInFlatListCall(value, tag)

SpecResolver == InitResolver /\ [][NextResolver]_vars

---------------------------------------------------------------------------
(* One logic object over several runs: the file that inputFilePath names changes
   between the calls, and lookups are made between the runs *)

LifecycleNodes == <<"U0", "U1", "U2">>

\* the files inputFilePath may name: a chain under the root, two children of the
\* root, an ontology whose root has no label, and a file that is not JSON
LifecycleFiles ==
  { Ontology([i \in 1..Len(LifecycleNodes) |-> NodeRecord(LifecycleNodes[i], TRUE)],
             <<Edge("U1", "is_a", "U0"), Edge("U2", "is_a", "U1")>>),
    Ontology([i \in 1..Len(LifecycleNodes) |-> NodeRecord(LifecycleNodes[i], TRUE)],
             <<Edge("U1", "is_a", "U0"), Edge("U2", PartOf, "U0")>>),
    Ontology(<<NodeRecord("U0", FALSE), NodeRecord("U1", TRUE), NodeRecord("U2", TRUE)>>,
             <<Edge("U2", "is_a", "U1")>>),
    Malformed }

\* the file behind parameterNode.inputFilePath is replaced by another one
SetInputFile(file) ==
  /\ file # fileContent
  /\ fileContent' = file
  /\ UNCHANGED <<loadedJson, loadedJsonFlatList, outFile, call, result>>

InitLifecycle ==
  /\ fileContent \in LifecycleFiles
  /\ loadedJson = NoneVal
  /\ loadedJsonFlatList = NoneList
  /\ outFile = NoOutFile
  /\ call = NoCall
  /\ result = NoResult

\* process, a change of the input file, and the queries, in any order
NextLifecycle ==
  \/ \E parameterNode \in {"none", "missing", "input"} : ProcessCall(parameterNode)
  \/ \E file \in LifecycleFiles : SetInputFile(file)
  \/ \E i \in 1..Len(LifecycleNodes), recursive \in BOOLEAN :
       GetChildrenForNodeCall(JStr(LifecycleNodes[i]), recursive)
  \/ \E value \in LookupValues, tag \in LookupTags : FindValueInFlatListCall(value, tag)

SpecLifecycle == InitLifecycle /\ [][NextLifecycle]_vars

---------------------------------------------------------------------------
(* What a document holds, read off the document itself and not off its flat list *)

KeySegment(k) == [kind |-> "key", key |-> k, index |-> 0]
IndexSegment(i) == [kind |-> "index", key |-> "", index |-> i]

IsScalar(v) == v.t \notin {"dict", "list"}

\* the positions of the scalar leaves of d, each the keys and zero-based indices
\* that lead to it from the root
RECURSIVE LeafPositions(_)
LeafPositions(d) ==
  IF d.t = "dict" THEN
    UNION {{<<KeySegment(d.keys[i])>> \o pos : pos \in LeafPositions(d.vals[i])}
           : i \in 1..Len(d.keys)}
  ELSE IF d.t = "list" THEN
    UNION {{<<IndexSegment(i - 1)>> \o pos : pos \in LeafPositions(d.vals[i])}
           : i \in 1..Len(d.vals)}
  ELSE {<<>>}

\* the value of d at a position that d has
RECURSIVE ValueAt(_, _)
ValueAt(d, pos) ==
  IF pos = <<>> THEN d
  ELSE LET seg == Head(pos) IN
    IF seg.kind = "key"
    THEN ValueAt(d.vals[CHOOSE i \in 1..Len(d.keys) : d.keys[i] = seg.key], Tail(pos))
    ELSE ValueAt(d.vals[seg.index + 1], Tail(pos))

\* whether d has the position pos
RECURSIVE HasPosition(_, _)
HasPosition(d, pos) ==
  IF pos = <<>> THEN TRUE
  ELSE LET seg == Head(pos) IN
    IF seg.kind = "key"
    THEN /\ d.t = "dict"
         /\ \E i \in 1..Len(d.keys) : d.keys[i] = seg.key
         /\ HasPosition(d.vals[CHOOSE i \in 1..Len(d.keys) : d.keys[i] = seg.key], Tail(pos))
    ELSE /\ d.t = "list"
         /\ seg.index < Len(d.vals)
         /\ HasPosition(d.vals[seg.index + 1], Tail(pos))

IsWrappedIndex(e) == e.t = "list" /\ Len(e.vals) = 1 /\ e.vals[1].t = "int"

\* the position that the first k elements of a flat element spell: a str is a key,
\* a one-element list is an array index
SegmentsOf(flatElement, k) ==
  [j \in 1..k |-> IF IsWrappedIndex(flatElement[j])
                  THEN IndexSegment(flatElement[j].vals[1].n)
                  ELSE KeySegment(flatElement[j].s)]

PathSegmentsWellFormed(flatElement, k) ==
  \A j \in 1..k : IsWrappedIndex(flatElement[j]) \/ flatElement[j].t = "str"

\* a flat element that ends in a scalar and leads to it: an Indexed Path of d
IsIndexedPath(d, flatElement) ==
  /\ Len(flatElement) >= 1
  /\ IsScalar(flatElement[Len(flatElement)])
  /\ PathSegmentsWellFormed(flatElement, Len(flatElement) - 1)
  /\ HasPosition(d, SegmentsOf(flatElement, Len(flatElement) - 1))
  /\ ValueAt(d, SegmentsOf(flatElement, Len(flatElement) - 1)) = flatElement[Len(flatElement)]

---------------------------------------------------------------------------
(* Claims on the flattening and the replay, under SpecFlat *)

\* C4: flatListFromDict(d) yields exactly one Indexed Path per scalar leaf of d, for
\* every JSON value d: each flat element ends in a scalar, replaying its segments
\* against d reaches that scalar, no two flat elements lead to the same leaf and no
\* leaf is missing.
C4_OnePathPerScalarLeaf ==
  call.op = "flatListFromDict" =>
    LET d == call.value
        fl == result.flatList
    IN  /\ result.status = "return"
        /\ \A i \in 1..Len(fl) : IsIndexedPath(d, fl[i])
        /\ \A i, j \in 1..Len(fl) :
             i # j => SegmentsOf(fl[i], Len(fl[i]) - 1) # SegmentsOf(fl[j], Len(fl[j]) - 1)
        /\ Len(fl) = Cardinality(LeafPositions(d))

\* C6: for an Indexed Path p of the loaded document, getJsonElementFromFlatElement(p, d)
\* returns the value reached by the first d segments of p, and with the default depth
\* it returns the leaf value p points at.
C6_ReplayReturnsSubValue ==
  ( /\ call.op = "getJsonElementFromFlatElement"
    /\ loadedJson # NoneVal
    /\ IsIndexedPath(loadedJson, call.flatElement) ) =>
    LET p == call.flatElement IN
    IF call.depth = DefaultDepth
    THEN result.status = "return" /\ result.json = p[Len(p)]
    ELSE call.depth < Len(p) =>
           /\ result.status = "return"
           /\ result.json = ValueAt(loadedJson, SegmentsOf(p, call.depth))

\* whether replaying flatElement from position k (zero-based) up to depth meets a key
\* that the object reached does not have or an index past the end of the array reached
RECURSIVE SegmentAbsent(_, _, _, _)
SegmentAbsent(cur, flatElement, k, depth) ==
  IF k >= Len(flatElement) \/ k = depth THEN FALSE
  ELSE LET seg == flatElement[k + 1] IN
    IF cur.t = "dict" /\ seg.t = "str" THEN
      IF \E i \in 1..Len(cur.keys) : cur.keys[i] = seg.s
      THEN SegmentAbsent(ValueAt(cur, <<KeySegment(seg.s)>>), flatElement, k + 1, depth)
      ELSE TRUE
    ELSE IF cur.t = "list" /\ IsWrappedIndex(seg) THEN
      IF seg.vals[1].n < Len(cur.vals)
      THEN SegmentAbsent(cur.vals[seg.vals[1].n + 1], flatElement, k + 1, depth)
      ELSE TRUE
    ELSE FALSE

\* C7 as stated: getJsonElementFromFlatElement raises, and returns nothing, when no
\* document is loaded and when a replayed key or index is absent from the document.
C7_FailsExplicitly ==
  ( /\ call.op = "getJsonElementFromFlatElement"
    /\ \/ loadedJson = NoneVal
       \/ SegmentAbsent(loadedJson, call.flatElement, 0, call.depth) ) =>
    result.status = "raise"

\* C7 as amended: with no document loaded the call returns None without raising; with
\* a document loaded, a replayed key the object reached lacks, or a replayed index past
\* the end of the array reached, makes it raise KeyError or IndexError.
C7_NoneWhenUnloadedRaiseWhenAbsent ==
  call.op = "getJsonElementFromFlatElement" =>
    /\ loadedJson = NoneVal => result.status = "return" /\ result.json = NoneVal
    /\ ( loadedJson # NoneVal /\ SegmentAbsent(loadedJson, call.flatElement, 0, call.depth) ) =>
         result.status = "raise" /\ result.exc \in {"KeyError", "IndexError"}

\* a loaded document, a replay that meets an absent key, and the KeyError it raises
C7_Witness ==
  /\ call.op = "getJsonElementFromFlatElement"
  /\ loadedJson # NoneVal
  /\ SegmentAbsent(loadedJson, call.flatElement, 0, call.depth)
  /\ Len(call.flatElement) >= 3
  /\ result.status = "raise"
  /\ result.exc = "KeyError"

---------------------------------------------------------------------------
(* What an ontology says, read off its node and edge records *)

Field(record, key) == ValueAt(record, <<KeySegment(key)>>)
HasField(record, key) == HasPosition(record, <<KeySegment(key)>>)
Elements(list) == {list.vals[i] : i \in 1..Len(list.vals)}

NodeRecordsOf(doc) == UNION {Elements(Field(g, "nodes")) : g \in Elements(Field(doc, "graphs"))}
EdgeRecordsOf(doc) == UNION {Elements(Field(g, "edges")) : g \in Elements(Field(doc, "graphs"))}

\* the subjects of the is-a and part-of edges whose object is n
ContainmentChildren(doc, n) ==
  {Field(e, "sub") : e \in {e \in EdgeRecordsOf(doc) :
      /\ Field(e, "obj") = n
      /\ Field(e, "pred") \in {JStr("is_a"), JStr("http://purl.obolibrary.org/obo/BFO_0000050")}}}

\* the nodes from which a chain of one or more is-a and part-of edges leads up to n
RECURSIVE ClosedUnderChildren(_, _)
ClosedUnderChildren(doc, found) ==
  LET more == found \cup UNION {ContainmentChildren(doc, m) : m \in found} IN
  IF more = found THEN found ELSE ClosedUnderChildren(doc, more)

Descendants(doc, n) == ClosedUnderChildren(doc, ContainmentChildren(doc, n))

NodeIDsOf(doc) == {Field(r, "id") : r \in NodeRecordsOf(doc)}

Acyclic(doc) ==
  \A e \in EdgeRecordsOf(doc) : Field(e, "sub") \notin Descendants(doc, Field(e, "sub"))

HasRootLabel(doc) ==
  \E r \in NodeRecordsOf(doc) : HasField(r, "lbl") /\ Field(r, "lbl") = JStr(rootNodeLabel)

RootID(doc) ==
  Field(CHOOSE r \in NodeRecordsOf(doc) :
          HasField(r, "lbl") /\ Field(r, "lbl") = JStr(rootNodeLabel), "id")

\* every node record has a label, and every node an edge names has a record
WellFormed(doc) ==
  /\ \A r \in NodeRecordsOf(doc) : HasField(r, "lbl")
  /\ \A e \in EdgeRecordsOf(doc) : {Field(e, "sub"), Field(e, "obj")} \subseteq NodeIDsOf(doc)

LabelOf(doc, id) == Field(CHOOSE r \in NodeRecordsOf(doc) : Field(r, "id") = id, "lbl")

---------------------------------------------------------------------------
(* Claims on the lookups and the containment resolver, under SpecResolver *)

\* C1: getChildrenForNode(n, recursive=True) terminates and returns a finite set of
\* node IDs for every edge set, cyclic ones included.
C1_RecursiveCallReturns ==
  (call.op = "getChildrenForNode" /\ call.recursive) =>
    result.status = "return" /\ IsFiniteSet(result.ids)

\* C2: getChildrenForNode(n) returns exactly the subjects of the edges whose object is
\* n and whose predicate is is-a or part-of.
C2_DirectChildrenAreContainmentSubjects ==
  (call.op = "getChildrenForNode" /\ ~call.recursive) =>
    /\ result.status = "return"
    /\ result.ids = ContainmentChildren(loadedJson, call.uberonNodeID)

\* n has a direct child, is the object of an edge under another predicate whose
\* subject is not returned, and is the subject of a containment edge whose object is
\* not returned
C2_Witness ==
  /\ call.op = "getChildrenForNode" /\ ~call.recursive
  /\ result.status = "return" /\ result.ids # {}
  /\ \E e \in EdgeRecordsOf(loadedJson) :
       /\ Field(e, "obj") = call.uberonNodeID
       /\ Field(e, "pred") = JStr(HasPart)
       /\ Field(e, "sub") \notin result.ids
  /\ \E e \in EdgeRecordsOf(loadedJson) :
       /\ Field(e, "sub") = call.uberonNodeID
       /\ Field(e, "pred") = JStr(PartOf)
       /\ Field(e, "obj") \notin result.ids

\* C3: whenever getChildrenForNode(n, recursive=True) returns, its result is the set
\* of nodes from which a chain of one or more containment edges leads up to n, and so
\* holds every direct child of n.
C3_RecursiveResultIsClosure ==
  (call.op = "getChildrenForNode" /\ call.recursive /\ result.status = "return") =>
    /\ result.ids = Descendants(loadedJson, call.uberonNodeID)
    /\ ContainmentChildren(loadedJson, call.uberonNodeID) \subseteq result.ids

\* a recursive call returned for a node with two direct children, one of them a
\* descendant of the other: the child the loop may skip
C3_Witness ==
  /\ call.op = "getChildrenForNode" /\ call.recursive /\ result.status = "return"
  /\ \E c1, c2 \in ContainmentChildren(loadedJson, call.uberonNodeID) :
       c1 # c2 /\ c2 \in Descendants(loadedJson, c1)
  /\ Cardinality(result.ids) = 2

\* whether the flat element qualifies for findValueInFlatList(value, tag)
Qualifies(elem, value, tag) ==
  /\ elem[Len(elem)] = value
  /\ tag # NoneVal => Len(elem) >= 2 /\ elem[Len(elem) - 1] = tag

\* C5: findValueInFlatList(value, tag) returns the first flat element, in the order of
\* the flat list, that ends in value and, when tag is given, has tag right before it;
\* when no flat element qualifies it raises the not-found RuntimeError.
C5_FirstMatchOrNotFound ==
  (call.op = "findValueInFlatList" /\ ~loadedJsonFlatList.isNone) =>
    LET elems == loadedJsonFlatList.elems
        hits == {i \in 1..Len(elems) : Qualifies(elems[i], call.value, call.tag)}
    IN  IF hits = {} THEN result.status = "raise" /\ result.exc = "RuntimeError"
        ELSE /\ result.status = "return"
             /\ \E i \in hits : result.flatElement = elems[i] /\ \A j \in hits : i <= j

\* a lookup under a key returned a flat element that comes after one holding the same
\* value under another key
C5_Witness ==
  /\ call.op = "findValueInFlatList" /\ call.tag # NoneVal
  /\ result.status = "return"
  /\ \E i, j \in 1..Len(loadedJsonFlatList.elems) :
       /\ j < i
       /\ loadedJsonFlatList.elems[i] = result.flatElement
       /\ Qualifies(loadedJsonFlatList.elems[j], call.value, NoneVal)
       /\ ~Qualifies(loadedJsonFlatList.elems[j], call.value, call.tag)

---------------------------------------------------------------------------
(* Claims on process, under Spec *)

\* the positions i of the sequence items whose CodeValue is id
WithCodeValue(items, id) == {i \in 1..Len(items) : items[i].CodeValue = id}

\* the Type list of a category holds one type per descendant of the category's node,
\* under the descendant's id and label, and nothing else
TypesMatch(doc, category) ==
  LET types == category.Type
      wanted == Descendants(doc, category.CodeValue)
  IN  /\ \A t \in wanted : Cardinality(WithCodeValue(types, t)) = 1
      /\ \A j \in 1..Len(types) :
           /\ types[j].CodeValue \in wanted
           /\ types[j].CodeMeaning = LabelOf(doc, types[j].CodeValue)

\* the direct children of the root that have descendants
RetainedChildren(doc) ==
  {c \in ContainmentChildren(doc, RootID(doc)) : Descendants(doc, c) # {}}

\* C8: for a well-formed acyclic ontology that holds the root label, process writes a
\* document whose context name is the root label, with exactly one Category per direct
\* child of the root that has descendants, under the child's id and label, holding
\* exactly one Type per descendant of the child, under its id and label.
C8_OutputIsTheTaxonomy ==
  ( /\ call.op = "process" /\ call.parameterNode = "input"
    /\ fileContent # Malformed
    /\ WellFormed(fileContent) /\ Acyclic(fileContent) /\ HasRootLabel(fileContent) ) =>
    LET categories == outFile.json.Category IN
    /\ result.status = "return"
    /\ outFile.exists
    /\ outFile.json.SegmentationCategoryTypeContextName = rootNodeLabel
    /\ \A c \in RetainedChildren(fileContent) : Cardinality(WithCodeValue(categories, c)) = 1
    /\ \A i \in 1..Len(categories) :
         /\ categories[i].CodeValue \in RetainedChildren(fileContent)
         /\ categories[i].CodeMeaning = LabelOf(fileContent, categories[i].CodeValue)
         /\ TypesMatch(fileContent, categories[i])

\* the ontology root <- U1 <- U2, both edges is-a, and the one category with the one
\* type written for it
C8_Witness ==
  /\ call.op = "process" /\ result.status = "return"
  /\ NodeIDsOf(fileContent) = {JStr("U0"), JStr("U1"), JStr("U2")}
  /\ EdgeRecordsOf(fileContent) =
       {EdgeRecord(Edge("U1", "is_a", "U0")), EdgeRecord(Edge("U2", "is_a", "U1"))}
  /\ outFile.exists
  /\ Len(outFile.json.Category) = 1
  /\ outFile.json.Category[1].CodeMeaning = JStr(NodeLabel("U1"))
  /\ Len(outFile.json.Category[1].Type) = 1
  /\ outFile.json.Category[1].Type[1].CodeMeaning = JStr(NodeLabel("U2"))

\* C9: in the document process writes, a direct child of the root without descendants
\* has no Category, a direct child with descendants has one, and no Category has an
\* empty Type list.
C9_NoCategoryWithoutTypes ==
  outFile.exists =>
    LET categories == outFile.json.Category IN
    /\ \A i \in 1..Len(categories) : Len(categories[i].Type) >= 1
    /\ \A c \in ContainmentChildren(fileContent, RootID(fileContent)) :
         Cardinality(WithCodeValue(categories, c)) =
           IF Descendants(fileContent, c) = {} THEN 0 ELSE 1

\* a written document for a root with a child that has descendants and a child that
\* has none
C9_Witness ==
  /\ call.op = "process" /\ result.status = "return" /\ outFile.exists
  /\ Len(outFile.json.Category) >= 1
  /\ \E c \in ContainmentChildren(fileContent, RootID(fileContent)) :
       /\ Descendants(fileContent, c) = {}
       /\ WithCodeValue(outFile.json.Category, c) = {}

\* C10: a run of process that ends in failure writes no output document, and a run on
\* an ontology without the root label raises the not-found RuntimeError and leaves no
\* output file.
C10_FailedRunWritesNothing ==
  /\ [][(call'.op = "process" /\ result'.status = "raise") => outFile' = outFile]_vars
  /\ []( ( /\ call.op = "process" /\ call.parameterNode = "input"
           /\ fileContent # Malformed /\ ~HasRootLabel(fileContent) ) =>
         (result.status = "raise" /\ result.exc = "RuntimeError" /\ ~outFile.exists) )

\* a run that found the root and a child of it, and failed on a node without a label:
\* no output file
C10_Witness ==
  /\ call.op = "process" /\ call.parameterNode = "input"
  /\ result.status = "raise" /\ result.exc = "KeyError"
  /\ HasRootLabel(fileContent)
  /\ ~outFile.exists

---------------------------------------------------------------------------
(* Claims on what the logic object holds between runs, under SpecLifecycle *)

\* C11 as stated: once an invocation of process has ended, the logic object holds no
\* document and no flat list, so nothing called afterwards can see the document an
\* earlier run loaded.
C11_NothingHeldAfterRun ==
  /\ call.op = "process" => (loadedJson = NoneVal /\ loadedJsonFlatList.isNone)
  /\ call.op \in {"getChildrenForNode", "findValueInFlatList"} =>
       (result.status = "return" => loadedJson = fileContent)

\* C11 as amended: a run of process that reads its input file leaves the file's
\* document and flat list held by the logic object when it ends, whether it then
\* returns or raises; a run that fails before it has parsed the file leaves what an
\* earlier run loaded; and neither a lookup, nor a children query, nor a change of the
\* input file changes what is held.
C11_DocumentHeldUntilReplaced ==
  [][ /\ (call'.op = "process" /\ fileContent' = fileContent) =>
         IF call'.parameterNode = "input" /\ fileContent # Malformed
         THEN /\ loadedJson' = fileContent
              /\ loadedJsonFlatList' = PyList(flatListFromDict(fileContent, <<>>))
         ELSE loadedJson' = loadedJson /\ loadedJsonFlatList' = loadedJsonFlatList
      /\ (call'.op # "process" \/ fileContent' # fileContent) =>
         (loadedJson' = loadedJson /\ loadedJsonFlatList' = loadedJsonFlatList) ]_vars

\* a children query made after the input file was replaced by one that does not
\* parse and process failed on it: the query answers from the document the earlier
\* run loaded
C11_Witness ==
  /\ call.op = "getChildrenForNode" /\ result.status = "return"
  /\ fileContent = Malformed
  /\ loadedJson # NoneVal
  /\ outFile.exists
  /\ result.ids # {}
  /\ result.ids = ContainmentChildren(loadedJson, call.uberonNodeID)

====
